---- MODULE Spec2Model ----
(***************************************************************************)
(* Wait-page servers of comfyui-nunchaku-sage: the log-to-stage-state      *)
(* derivation (compute_stage_states), the backup item tracker              *)
(* (_apply_backup_progress, build_backup_state) and the log tail reader    *)
(* (tail_lines) of scripts/comfy_wait_page.py and                          *)
(* scripts/ai_toolkit_wait_page.py.                                        *)
(*                                                                         *)
(* Indices are the 0-based indices of the Python code; None is -1.         *)
(* A text is a sequence of tokens: a name segment ("a", "h"), "/", ".git"  *)
(* or " ".  The empty sequence is the empty string, and also stands for a  *)
(* regular expression that did not match (every capture group of the       *)
(* source holds at least one character).                                   *)
(***************************************************************************)
EXTENDS Integers, Sequences, FiniteSets, TLC

VARIABLES program, ENV_INFO, manifest, log, lines, stages, backup, replay, computed,
          log_file, snapshot_kind, mtime, yaml_ok,
          cache, raised, parsed, response, loads, wrote,
          probe, fetch, probes, fetches, navigations, location

\* The files and modules the server reads: whether the log can be opened
\* ("open", "missing", "denied"); how the snapshot file reads ("missing",
\* "unreadable", "unparseable", "not_mapping", "bad_section", "good"; manifest
\* is its content when it parses to a mapping of mappings), its st_mtime;
\* whether the yaml module can be imported
files == <<log_file, snapshot_kind, mtime, yaml_ok>>

\* _SNAPSHOT_CACHE; whether the last request ended in an exception; whether
\* it parsed the snapshot; the response it sent; the executions of the
\* handler that are under way, where they are followed statement by
\* statement; the request that stored each field of the cache
server == <<cache, raised, parsed, response, loads, wrote>>

\* The page in the browser: the two timer loops, the requests each has sent,
\* and the navigations away from the page
client == <<probe, fetch, probes, fetches, navigations, location>>

vars == <<program, ENV_INFO, manifest, log, lines, stages, backup, replay, computed,
          files, server, client>>

(* ------------------------------ bounds -------------------------------- *)

\* longest log of stage lines, longest log of restore lines
MaxStageLog == 3
MaxItemLog == 3
\* longest log of the polled server
MaxPollLog == 4

\* The longest log of the specification of the routes
MaxHttpLog == 2

\* The longest log, and the most writes of the snapshot file, of the
\* specification of the manifest cache
MaxCacheLog == 3
MaxWrites == 2

\* The longest log of the specification of the stage details
MaxDetailLog == 3

\* The most requests the server accepts where the handler is followed
\* statement by statement
MaxRequests == 2

\* The most requests each loop of the page sends
MaxProbes == 3
MaxFetches == 3

\* Lines appended to the log while the page is served by its own server
MaxWaitLog == 2
\* the log file in abstract bytes: every line is BytesPerLine - 1 units of
\* content followed by one newline unit; the tail window is TailBytes units
BytesPerLine == 2
TailBytes == 5

None == -1

(* ------------------------------ texts --------------------------------- *)

RECURSIVE lstrip(_)
lstrip(s) == IF s # <<>> /\ Head(s) = " " THEN lstrip(Tail(s)) ELSE s

RECURSIVE rstrip(_)
rstrip(s) ==
    IF s # <<>> /\ s[Len(s)] = " " THEN rstrip(SubSeq(s, 1, Len(s) - 1)) ELSE s

\* str.strip()
strip(s) == rstrip(lstrip(s))

\* str.rstrip("/")
RECURSIVE rstrip_slash(_)
rstrip_slash(s) ==
    IF s # <<>> /\ s[Len(s)] = "/"
    THEN rstrip_slash(SubSeq(s, 1, Len(s) - 1))
    ELSE s

endswith_git(s) == s # <<>> /\ s[Len(s)] = ".git"

\* s[:-4] of a text that ends with ".git"
drop_git(s) == SubSeq(s, 1, Len(s) - 1)

\* s.split("/")[-1]
RECURSIVE last_segment(_)
last_segment(s) ==
    IF \E i \in 1..Len(s) : s[i] = "/"
    THEN last_segment(Tail(s))
    ELSE s

_repo_label(repo_url) ==
    LET stripped == rstrip_slash(strip(repo_url))
        cleaned == IF endswith_git(stripped) THEN drop_git(stripped) ELSE stripped
    IN  IF \E i \in 1..Len(cleaned) : cleaned[i] = "/"
        THEN last_segment(cleaned)
        ELSE cleaned

_normalize_repo(repo_url) ==
    LET stripped == strip(repo_url)
        cleaned == IF endswith_git(stripped) THEN drop_git(stripped) ELSE stripped
    IN  rstrip_slash(cleaned)

(* ----------------------------- manifest ------------------------------- *)

\* One git_custom_nodes entry and one cnr_custom_nodes entry of the snapshot
GitEntry(url, disabled) == [url |-> url, disabled |-> disabled]

\* The node list _load_backup_nodes builds from a parsed snapshot: the git
\* entries that are not disabled, then the cnr entries.  A node without
\* "repo" has repo = <<>>; a node without "status" has status = "".
GitNode(e) ==
    [key |-> _repo_label(e.url), source |-> "git",
     repo |-> _normalize_repo(e.url), status |-> ""]

CnrNode(name) == [key |-> name, source |-> "cnr", repo |-> <<>>, status |-> ""]

RECURSIVE GitNodes(_)
GitNodes(entries) ==
    IF entries = <<>> THEN <<>>
    ELSE IF Head(entries).disabled THEN GitNodes(Tail(entries))
    ELSE <<GitNode(Head(entries))>> \o GitNodes(Tail(entries))

ParseSnapshot(data) ==
    GitNodes(data.git) \o [i \in 1..Len(data.cnr) |-> CnrNode(data.cnr[i])]

UrlA == <<"h", "/", "a", ".git">>
UrlB == <<"h", "/", "b", "/">>
KeyA == <<"a">>
KeyB == <<"b">>
KeyC == <<"c">>
KeyD == <<"d">>

\* The snapshots the model draws from: git and registry items mixed, a
\* registry-only snapshot, a git item whose locator is its bare name, a
\* disabled git entry, and the empty snapshot.
Snapshots ==
    { [git |-> <<GitEntry(UrlA, FALSE), GitEntry(UrlB, FALSE)>>, cnr |-> <<KeyC>>],
      [git |-> <<>>, cnr |-> <<KeyC, KeyD>>],
      [git |-> <<GitEntry(KeyA, FALSE), GitEntry(UrlA, TRUE)>>, cnr |-> <<KeyB>>],
      [git |-> <<>>, cnr |-> <<>>] }

(* ------------------------------- lines -------------------------------- *)

\* A log line, by what the regular expressions of the source find in it:
\*   st     the indices of the stage definitions one of whose patterns matches
\*   clone, cnr, skip, err, fail   group(1) of RESTORE_CLONE_RE, RESTORE_CNR_RE,
\*          RESTORE_SKIP_RE, RESTORE_ERR_RE and RESTORE_FAIL_LIST_RE (fail is
\*          the group split at ","), <<>> when the expression does not match
\*   done   whether RESTORE_DONE_RE matches
\*   node   group(1) of the first expression of NODE_PROGRESS_RE that matches,
\*          <<>> when none does
\*   words  the phrases the detail rules of the AI Toolkit page look for that
\*          the lower-cased line contains
Line(st, clone, cnr, skip, err, fail, done) ==
    [st |-> st, clone |-> clone, cnr |-> cnr, skip |-> skip, err |-> err,
     fail |-> fail, done |-> done, node |-> <<>>, words |-> {}]

NodeLine(line, name) == [line EXCEPT !.node = name]

WordsLine(line, words) == [line EXCEPT !.words = words]

StageLine(st) == Line(st, <<>>, <<>>, <<>>, <<>>, <<>>, FALSE)
CloneLine(url) == Line({}, url, <<>>, <<>>, <<>>, <<>>, FALSE)
CnrLine(name) == Line({}, <<>>, name, <<>>, <<>>, <<>>, FALSE)
SkipLine(name) == Line({}, <<>>, <<>>, name, <<>>, <<>>, FALSE)
ErrLine(name) == Line({}, <<>>, <<>>, <<>>, name, <<>>, FALSE)
FailListLine(names) == Line({}, <<>>, <<>>, <<>>, <<>>, names, FALSE)
DoneLine == Line({}, <<>>, <<>>, <<>>, <<>>, <<>>, TRUE)
OtherLine == StageLine({})

\* The restore lines the model draws from
RestoreLines ==
    { CloneLine(<<"h", "/", "b", " ">>), CnrLine(KeyA), CnrLine(KeyC),
      SkipLine(KeyA), SkipLine(KeyC),
      ErrLine(<<"h", "/", "b">>), ErrLine(KeyC),
      FailListLine(<<KeyA, <<" ", "c">> >>), FailListLine(<<KeyD>>),
      DoneLine, OtherLine }

(* ---------------------------- item tracker ---------------------------- *)

\* index_by_key.get(k): a dict comprehension keeps the last index of a key
index_by_key(nodes, k) ==
    LET hits == {i \in 0..(Len(nodes) - 1) : nodes[i + 1].key = k}
    IN  IF hits = {} THEN None ELSE CHOOSE i \in hits : \A j \in hits : j <= i

\* index_by_repo.get(r): only the nodes with a non-empty repo are indexed
index_by_repo(nodes, r) ==
    LET hits == {i \in 0..(Len(nodes) - 1) :
                    nodes[i + 1].repo # <<>> /\ nodes[i + 1].repo = r}
    IN  IF hits = {} THEN None ELSE CHOOSE i \in hits : \A j \in hits : j <= i

\* Python's "x or y" on an optional index: None and 0 are both falsy
py_or(x, y) == IF x = None \/ x = 0 THEN y ELSE x

\* index_by_key.get(k) or index_by_repo.get(_normalize_repo(k))
resolve_either(nodes, k) ==
    py_or(index_by_key(nodes, k), index_by_repo(nodes, _normalize_repo(k)))

set_status(nodes, idx, status) ==
    [nodes EXCEPT ![idx + 1] = [@ EXCEPT !.status = status]]

\* Mutant of begin_node: the pointer is assigned outside the test of the key
begin_node_unguarded(st, key) ==
    IF key = None THEN [st EXCEPT !.active_idx = None]
    ELSE LET demoted ==
                IF /\ st.active_idx # None
                   /\ st.nodes[st.active_idx + 1].status = "installing"
                   /\ st.active_idx # key
                THEN set_status(st.nodes, st.active_idx, "done")
                ELSE st.nodes
         IN  [nodes |-> set_status(demoted, key, "installing"), active_idx |-> key]

\* A begin event that leaves the item begun before as it is
begin_node_no_demote(st, key) ==
    IF key = None THEN st
    ELSE [nodes |-> set_status(st.nodes, key, "installing"), active_idx |-> key]

\* A begin event for the node at index key (None when the key is unknown)
begin_node(st, key) ==
    IF key = None THEN st
    ELSE LET demoted ==
                IF /\ st.active_idx # None
                   /\ st.nodes[st.active_idx + 1].status = "installing"
                   /\ st.active_idx # key
                THEN set_status(st.nodes, st.active_idx, "done")
                ELSE st.nodes
         IN  [nodes |-> set_status(demoted, key, "installing"), active_idx |-> key]

mark_node(st, idx, status) ==
    IF idx = None THEN st
    ELSE [st EXCEPT !.nodes = set_status(st.nodes, idx, status)]

RECURSIVE mark_failed_list(_, _)
mark_failed_list(st, keys) ==
    IF keys = <<>> THEN st
    ELSE mark_failed_list(
            mark_node(st, resolve_either(st.nodes, strip(Head(keys))), "failed"),
            Tail(keys))

\* Mutant of mark_all_done: failed nodes are marked done as well
mark_all_done_all(st) ==
    [nodes |-> [i \in 1..Len(st.nodes) |-> [st.nodes[i] EXCEPT !.status = "done"]],
     active_idx |-> None]

mark_all_done(st) ==
    [nodes |-> [i \in 1..Len(st.nodes) |->
                   IF st.nodes[i].status \in {"pending", "installing"}
                   THEN [st.nodes[i] EXCEPT !.status = "done"]
                   ELSE st.nodes[i]],
     active_idx |-> None]

\* The body of "for line in lines" of _apply_backup_progress: the first
\* expression of the chain that matches decides the event
apply_line(st, line) ==
    IF line.clone # <<>>
    THEN begin_node(st, index_by_repo(st.nodes, _normalize_repo(line.clone)))
    ELSE IF line.cnr # <<>>
    THEN begin_node(st, index_by_key(st.nodes, strip(line.cnr)))
    ELSE IF line.skip # <<>>
    THEN mark_node(st, resolve_either(st.nodes, strip(line.skip)), "done")
    ELSE IF line.err # <<>>
    THEN mark_node(st, resolve_either(st.nodes, strip(line.err)), "failed")
    ELSE IF line.fail # <<>>
    THEN mark_failed_list(st, line.fail)
    ELSE IF line.done
    THEN mark_all_done(st)
    ELSE st

\* The state before the first line: every node without a status is pending
scan_start(nodes) ==
    [nodes |-> [i \in 1..Len(nodes) |->
                   IF nodes[i].status = ""
                   THEN [nodes[i] EXCEPT !.status = "pending"]
                   ELSE nodes[i]],
     active_idx |-> None]

\* The states of the scan: before the first line, then after each line
RECURSIVE scan_trace(_, _)
scan_trace(st, ls) ==
    IF ls = <<>> THEN <<st>>
    ELSE <<st>> \o scan_trace(apply_line(st, Head(ls)), Tail(ls))

\* The promotion reaching every pending item, whatever its place in the list
promote_every_pending(st) ==
    IF st.active_idx # None /\ st.nodes[st.active_idx + 1].status = "installing"
    THEN [i \in 1..Len(st.nodes) |->
             IF st.nodes[i].status = "pending"
             THEN [st.nodes[i] EXCEPT !.status = "done"]
             ELSE st.nodes[i]]
    ELSE st.nodes

\* The promotion after the scan
promote_earlier(st) ==
    IF st.active_idx # None /\ st.nodes[st.active_idx + 1].status = "installing"
    THEN [i \in 1..Len(st.nodes) |->
             IF i - 1 < st.active_idx /\ st.nodes[i].status = "pending"
             THEN [st.nodes[i] EXCEPT !.status = "done"]
             ELSE st.nodes[i]]
    ELSE st.nodes

_apply_backup_progress(nodes, ls) ==
    IF nodes = <<>> THEN nodes
    ELSE LET trace == scan_trace(scan_start(nodes), ls)
         IN  promote_earlier(trace[Len(trace)])

\* The feature enabled by the repository alone, whatever the restore flag
backup_enabled_by_repo(env) == env.backup_repo # "None"

\* ENV_INFO["restore_enabled"] and ENV_INFO["backup_repo"], as a truth value
backup_enabled(env) == env.restore_enabled /\ env.backup_repo # "None"

\* The items that are neither pending nor being installed
settled_count(nodes) ==
    Cardinality({i \in 1..Len(nodes) : nodes[i].status \in {"done", "failed"}})

done_count(nodes) == Cardinality({i \in 1..Len(nodes) : nodes[i].status = "done"})

\* cached is what _load_backup_nodes returns; the message is kept as its
\* kind, with the two counts of the last one
build_backup_state(env, cached, ls) ==
    LET enabled == backup_enabled(env)
        loaded == IF enabled THEN cached ELSE <<>>
        nodes == IF enabled THEN _apply_backup_progress(loaded, ls) ELSE <<>>
        message ==
            IF env.backup_repo = "None" THEN <<"not set">>
            ELSE IF ~env.restore_enabled THEN <<"configured but disabled">>
            ELSE IF nodes = <<>> THEN <<"waiting for manifest">>
            ELSE <<"processed", done_count(nodes), Len(nodes)>>
    IN  [enabled |-> enabled, repo |-> env.backup_repo, nodes |-> nodes,
         has_manifest |-> (loaded # <<>>), message |-> message]

(* ------------------------------- stages ------------------------------- *)

\* The ids of STAGE_DEFS and of AITK_STAGE_DEFS, in definition order
STAGE_DEFS ==
    <<"bootstrap", "venv", "wheels", "backup-manager", "backup-nodes", "core",
      "custom", "launch">>

AITK_STAGE_DEFS == <<"repo", "venv", "deps", "ui-build", "start">>

\* The stage lines the model draws from: a line for each stage, a line that
\* matches nothing, and two lines that match two stages
\* "STAGE: Updating custom nodes", the one pattern of the stage "custom",
\* is itself matched by the second expression of NODE_PROGRESS_RE, with
\* group(1) = "custom"
CustomLine == NodeLine(StageLine({6}), <<"custom">>)

\* Either pattern of the stage "repo" holds a phrase _detail_repo looks for;
\* of the patterns of "ui-build", "npm run build" holds none that _detail_ui
\* looks for
RepoLine == WordsLine(StageLine({0}), {"cloning"})

ComfyStageLines ==
    {IF i = 6 THEN CustomLine ELSE StageLine({i}) : i \in 0..(Len(STAGE_DEFS) - 1)}
        \cup {OtherLine, StageLine({1, 5}), StageLine({3, 5})}

AitkStageLines ==
    {IF i = 0 THEN RepoLine ELSE StageLine({i}) : i \in 0..(Len(AITK_STAGE_DEFS) - 1)}
        \cup {OtherLine, WordsLine(StageLine({0, 3}), {"cloning"})}

\* The lines the polled log is written from
PollLines == {StageLine({1}), StageLine({2}), StageLine({3}), StageLine({5}), OtherLine}

skip_ids(backup_state) ==
    IF ~backup_state.enabled THEN {"backup-manager", "backup-nodes"} ELSE {}

\* _backup_detail, the detail_factory of "backup-nodes"; a text is kept as
\* its kind and the values set into it
_backup_detail(backup_state) ==
    IF ENV_INFO.backup_repo = "None" THEN <<"Backup is not set">>
    ELSE IF ~ENV_INFO.restore_enabled
    THEN <<"configured but RESTORE_BACKUP=0", ENV_INFO.backup_repo>>
    ELSE IF Len(backup_state.nodes) # 0
    THEN <<"Restoring custom nodes", Len(backup_state.nodes), ENV_INFO.backup_repo>>
    ELSE <<"Restoring backup", ENV_INFO.backup_repo>>

\* definition["detail"], or the detail_factory's text where there is one
base_detail(id, backup_state) ==
    IF id = "backup-nodes" THEN _backup_detail(backup_state) ELSE <<"detail of", id>>

\* The stage records before the scan
initial_stages(backup_state) ==
    [i \in 1..Len(STAGE_DEFS) |->
        [id |-> STAGE_DEFS[i],
         detail |-> base_detail(STAGE_DEFS[i], backup_state),
         status |-> IF STAGE_DEFS[i] \in skip_ids(backup_state)
                    THEN "done" ELSE "pending",
         skipped |-> STAGE_DEFS[i] \in skip_ids(backup_state)]]

_update_backup_detail(line, current) ==
    IF line.clone # <<>> THEN <<"Cloning", _repo_label(line.clone)>>
    ELSE IF line.cnr # <<>> THEN <<"Installing from snapshot", line.cnr>>
    ELSE current

_update_custom_detail(line, current) ==
    IF line.node # <<>>
    THEN <<"Updating", IF Head(line.node) = "http"
                       THEN _repo_label(line.node) ELSE line.node>>
    ELSE current

\* definition.get("detail_from_line") applied, where the definition has one
detail_from_line(id, line, current) ==
    IF id = "backup-nodes" THEN _update_backup_detail(line, current)
    ELSE IF id = "custom" THEN _update_custom_detail(line, current)
    ELSE <<>>

\* The inner loop going on past the first match: every definition that is
\* not skipped and matches the line has its detail rule applied
apply_detail_all(sts, line) ==
    [i \in 1..Len(sts) |->
        IF ~sts[i].skipped /\ (i - 1) \in line.st
           /\ detail_from_line(sts[i].id, line, sts[i].detail) # <<>>
        THEN [sts[i] EXCEPT !.detail = detail_from_line(sts[i].id, line, sts[i].detail)]
        ELSE sts[i]]

\* The inner loop over STAGE_DEFS for one line, as to the details: the first
\* definition that is not skipped and matches has its detail rule applied,
\* and a text that is not empty replaces the stage's detail
apply_detail(sts, line) ==
    LET hits == {i \in 1..Len(sts) : ~sts[i].skipped /\ (i - 1) \in line.st}
    IN  IF hits = {} THEN sts
        ELSE LET idx == CHOOSE i \in hits : \A j \in hits : i <= j
                 new_detail == detail_from_line(sts[idx].id, line, sts[idx].detail)
             IN  IF new_detail # <<>>
                 THEN [sts EXCEPT ![idx] = [@ EXCEPT !.detail = new_detail]]
                 ELSE sts

RECURSIVE scan_details(_, _)
scan_details(sts, ls) ==
    IF ls = <<>> THEN sts
    ELSE scan_details(apply_detail(sts, Head(ls)), Tail(ls))

\* Mutant of match_line: the skipped flag is not consulted
match_line_any(sts, current_idx, line) ==
    LET hits == {i \in 0..(Len(sts) - 1) : i \in line.st}
    IN  IF hits = {} THEN current_idx
        ELSE CHOOSE i \in hits : \A j \in hits : i <= j

\* Mutant of match_line: the pointer only ever moves forward
match_line_forward(sts, current_idx, line) ==
    LET hits == {i \in 0..(Len(sts) - 1) : ~sts[i + 1].skipped /\ i \in line.st}
        first == CHOOSE i \in hits : \A j \in hits : i <= j
    IN  IF hits = {} THEN current_idx
        ELSE IF first > current_idx THEN first ELSE current_idx

\* The inner loop without its break: the last definition that is not skipped
\* and has a matching pattern is the one that stays in current_idx
match_line_last(sts, current_idx, line) ==
    LET hits == {i \in 0..(Len(sts) - 1) : ~sts[i + 1].skipped /\ i \in line.st}
    IN  IF hits = {} THEN current_idx
        ELSE CHOOSE i \in hits : \A j \in hits : j <= i

\* The inner loop over STAGE_DEFS for one line: the index of the first
\* definition that is not skipped and has a matching pattern, else current_idx
match_line(sts, current_idx, line) ==
    LET hits == {i \in 0..(Len(sts) - 1) : ~sts[i + 1].skipped /\ i \in line.st}
    IN  IF hits = {} THEN current_idx
        ELSE CHOOSE i \in hits : \A j \in hits : i <= j

\* Mutant of scan_stages: the scan stops at the first line that matches
RECURSIVE scan_stages_first(_, _, _)
scan_stages_first(sts, current_idx, ls) ==
    IF ls = <<>> \/ current_idx # None THEN current_idx
    ELSE scan_stages_first(sts, match_line(sts, current_idx, Head(ls)), Tail(ls))

RECURSIVE scan_stages(_, _, _)
scan_stages(sts, current_idx, ls) ==
    IF ls = <<>> THEN current_idx
    ELSE scan_stages(sts, match_line(sts, current_idx, Head(ls)), Tail(ls))

\* Mutant of cold_start: no stage is made active
cold_start_none(sts) == sts

\* Mutant of cold_start: the last open stage is made active
cold_start_last(sts) ==
    LET open == {i \in 1..Len(sts) : ~sts[i].skipped}
    IN  IF open = {} THEN sts
        ELSE LET last == CHOOSE i \in open : \A j \in open : j <= i
             IN  [sts EXCEPT ![last] = [@ EXCEPT !.status = "active"]]

\* current_idx is None: the first stage that is not skipped becomes active
cold_start(sts) ==
    LET open == {i \in 1..Len(sts) : ~sts[i].skipped}
    IN  IF open = {} THEN sts
        ELSE LET first == CHOOSE i \in open : \A j \in open : i <= j
             IN  [sts EXCEPT ![first] = [@ EXCEPT !.status = "active"]]

\* Mutant of assign_status: the stages before the current one are left as they are
assign_status_no_done(sts, current_idx) ==
    [i \in 1..Len(sts) |->
        IF sts[i].skipped \/ i - 1 < current_idx THEN sts[i]
        ELSE [sts[i] EXCEPT !.status =
                 IF i - 1 = current_idx THEN "active" ELSE "pending"]]

\* The final loop: the status of every stage that is not skipped
assign_status(sts, current_idx) ==
    [i \in 1..Len(sts) |->
        IF sts[i].skipped THEN sts[i]
        ELSE [sts[i] EXCEPT !.status =
                 IF i - 1 < current_idx THEN "done"
                 ELSE IF i - 1 = current_idx THEN "active"
                 ELSE "pending"]]

compute_stage_states(ls, backup_state) ==
    LET sts == scan_details(initial_stages(backup_state), ls)
        current_idx == scan_stages(sts, None, ls)
    IN  IF current_idx = None THEN cold_start(sts)
        ELSE assign_status(sts, current_idx)

\* compute_stage_states of the AI Toolkit page: no stage is skipped and the
\* records have no "skipped" field
aitk_initial_stages ==
    [i \in 1..Len(AITK_STAGE_DEFS) |->
        [id |-> AITK_STAGE_DEFS[i], detail |-> <<"detail of", AITK_STAGE_DEFS[i]>>,
         status |-> "pending"]]

_detail_repo(line, current) ==
    IF "cloning" \in line.words THEN <<"Cloning fresh repo">>
    ELSE IF "updating repo" \in line.words THEN <<"Updating existing repo">>
    ELSE current

_detail_ui(line, current) ==
    IF "installing ui dependencies" \in line.words THEN <<"Installing npm dependencies">>
    ELSE IF "building ui" \in line.words THEN <<"Building UI bundle">>
    ELSE IF "update_db" \in line.words THEN <<"Updating database schema">>
    ELSE current

aitk_detail_from_line(id, line, current) ==
    IF id = "repo" THEN _detail_repo(line, current)
    ELSE IF id = "ui-build" THEN _detail_ui(line, current)
    ELSE <<>>

\* The inner loop going on past the first match
aitk_apply_detail_all(sts, line) ==
    [i \in 1..Len(sts) |->
        IF (i - 1) \in line.st /\ aitk_detail_from_line(sts[i].id, line, sts[i].detail) # <<>>
        THEN [sts[i] EXCEPT !.detail = aitk_detail_from_line(sts[i].id, line, sts[i].detail)]
        ELSE sts[i]]

aitk_apply_detail(sts, line) ==
    LET hits == {i \in 1..Len(sts) : (i - 1) \in line.st}
    IN  IF hits = {} THEN sts
        ELSE LET idx == CHOOSE i \in hits : \A j \in hits : i <= j
                 new_detail == aitk_detail_from_line(sts[idx].id, line, sts[idx].detail)
             IN  IF new_detail # <<>>
                 THEN [sts EXCEPT ![idx] = [@ EXCEPT !.detail = new_detail]]
                 ELSE sts

RECURSIVE aitk_scan_details(_, _)
aitk_scan_details(sts, ls) ==
    IF ls = <<>> THEN sts
    ELSE aitk_scan_details(aitk_apply_detail(sts, Head(ls)), Tail(ls))

aitk_match_line(current_idx, line) ==
    LET hits == {i \in 0..(Len(AITK_STAGE_DEFS) - 1) : i \in line.st}
    IN  IF hits = {} THEN current_idx
        ELSE CHOOSE i \in hits : \A j \in hits : i <= j

RECURSIVE aitk_scan_stages(_, _)
aitk_scan_stages(current_idx, ls) ==
    IF ls = <<>> THEN current_idx
    ELSE aitk_scan_stages(aitk_match_line(current_idx, Head(ls)), Tail(ls))

aitk_compute_stage_states(ls) ==
    LET sts == aitk_scan_details(aitk_initial_stages, ls)
        current_idx == aitk_scan_stages(None, ls)
    IN  IF current_idx = None
        THEN IF sts # <<>> THEN [sts EXCEPT ![1] = [@ EXCEPT !.status = "active"]]
             ELSE sts
        ELSE [i \in 1..Len(sts) |->
                 [sts[i] EXCEPT !.status =
                     IF i - 1 < current_idx THEN "done"
                     ELSE IF i - 1 = current_idx THEN "active"
                     ELSE "pending"]]

(* ------------------------------ tail reader --------------------------- *)

\* What is left of a line when the read starts inside it: the patterns of the
\* model's lines stand at the start of the line, so the rest matches nothing
partial_line == OtherLine

\* tail_lines seeking to size - max_bytes as it is: a negative offset makes
\* seek raise OSError, which the function answers with the empty list
tail_lines_unclamped(file, max_bytes) ==
    LET size == Len(file) * BytesPerLine
        offset == size - max_bytes
        whole == offset \div BytesPerLine
    IN  IF offset < 0
        THEN <<>>
        ELSE IF offset % BytesPerLine = 0
        THEN SubSeq(file, whole + 1, Len(file))
        ELSE <<partial_line>> \o SubSeq(file, whole + 2, Len(file))

\* tail_lines on a file that can be opened: file is the lines written so far
tail_lines(file, max_bytes) ==
    LET size == Len(file) * BytesPerLine
        offset == IF size - max_bytes > 0 THEN size - max_bytes ELSE 0
        whole == offset \div BytesPerLine
    IN  IF offset % BytesPerLine = 0
        THEN SubSeq(file, whole + 1, Len(file))
        ELSE <<partial_line>> \o SubSeq(file, whole + 2, Len(file))

(* ------------------------------- requests ----------------------------- *)

\* build_state_payload on the lines ls
state_payload(env, cached, ls) ==
    LET backup_state == build_backup_state(env, cached, ls)
    IN  [stages |-> compute_stage_states(ls, backup_state), backup |-> backup_state]

\* The scan of _apply_backup_progress inside build_backup_state, state by state
replay_of(env, cached, ls) ==
    IF backup_enabled(env) /\ cached # <<>>
    THEN scan_trace(scan_start(cached), ls)
    ELSE <<>>

Envs == [backup_repo : {"None", "org/backup"}, restore_enabled : BOOLEAN]

EmptySnapshot == [git |-> <<>>, cnr |-> <<>>]

EmptyCache == [mtime |-> None, nodes |-> <<>>]

NoResponse == [status |-> 0, content_type |-> "", body |-> "", no_store |-> FALSE]

\* The log can be opened, the snapshot is a well-formed file, yaml is installed
UsualFiles ==
    /\ log_file = "open"
    /\ snapshot_kind = "good"
    /\ mtime = 1
    /\ yaml_ok = TRUE

\* The page is not modelled
NoClient ==
    /\ probe = "off"
    /\ fetch = "off"
    /\ probes = 0
    /\ fetches = 0
    /\ navigations = 0
    /\ location = "wait page"

NoResult ==
    /\ cache = EmptyCache
    /\ loads = [running |-> <<>>, accepted |-> 0]
    /\ wrote = [mtime |-> 0, nodes |-> 0]
    /\ raised = FALSE
    /\ parsed = FALSE
    /\ response = NoResponse
    /\ lines = <<>>
    /\ stages = <<>>
    /\ backup = [enabled |-> FALSE, repo |-> "None", nodes |-> <<>>,
                 has_manifest |-> FALSE, message |-> <<"not set">>]
    /\ replay = <<>>
    /\ computed = FALSE

\* The provisioning script appends a line to the log
AppendLine(l) ==
    /\ log' = Append(log, l)
    /\ UNCHANGED <<program, ENV_INFO, manifest, lines, stages, backup, replay, computed>>
    /\ UNCHANGED <<files, server, client>>

AppendStageLine ==
    /\ Len(log) < MaxStageLog
    /\ \E l \in (IF program = "comfy" THEN ComfyStageLines ELSE AitkStageLines) :
          AppendLine(l)

AppendRestoreLine ==
    /\ Len(log) < MaxItemLog
    /\ \E l \in RestoreLines : AppendLine(l)

AppendPollLine ==
    /\ Len(log) < MaxPollLog
    /\ \E l \in PollLines : AppendLine(l)

Respond(ls) ==
    /\ lines' = ls
    /\ computed' = TRUE
    /\ IF program = "comfy"
       THEN LET payload == state_payload(ENV_INFO, ParseSnapshot(manifest), ls)
            IN  /\ stages' = payload.stages
                /\ backup' = payload.backup
                /\ replay' = replay_of(ENV_INFO, ParseSnapshot(manifest), ls)
       ELSE /\ stages' = aitk_compute_stage_states(ls)
            /\ UNCHANGED <<backup, replay>>
    /\ UNCHANGED <<program, ENV_INFO, manifest, log>>
    /\ UNCHANGED <<files, server, client>>

\* The stage and item computation applied to every line written so far
Compute == Respond(log)

(* ------------------------- files and the cache ------------------------ *)

\* tail_lines of the ComfyUI page for each state of the log file: open()
\* raises OSError for a file that is missing or may not be read
comfy_tail_lines(state, file, max_bytes) ==
    IF state = "open"
    THEN [raised |-> FALSE, lines |-> tail_lines(file, max_bytes)]
    ELSE [raised |-> FALSE, lines |-> <<>>]

\* tail_lines of the AI Toolkit page: the same text in a module that never
\* imports os, so os.SEEK_END raises NameError once the file is open, and
\* NameError is not an OSError
aitk_tail_lines(state, file, max_bytes) ==
    IF state = "open"
    THEN [raised |-> TRUE, lines |-> <<>>]
    ELSE [raised |-> FALSE, lines |-> <<>>]

\* _load_backup_nodes serving whatever it has cached, whatever the file's
\* modification time
_load_backup_nodes_any_mtime(kind, data, current_mtime, yaml, cached) ==
    IF kind = "missing"
    THEN [nodes |-> <<>>, cache |-> EmptyCache, parsed |-> FALSE,
          raised |-> FALSE, is_cache |-> FALSE]
    ELSE IF cached.mtime # None
    THEN [nodes |-> cached.nodes, cache |-> cached, parsed |-> FALSE,
          raised |-> FALSE, is_cache |-> TRUE]
    ELSE IF ~yaml \/ kind \in {"unreadable", "unparseable"}
    THEN [nodes |-> <<>>, cache |-> cached, parsed |-> FALSE,
          raised |-> FALSE, is_cache |-> FALSE]
    ELSE IF kind \in {"not_mapping", "bad_section"}
    THEN [nodes |-> <<>>, cache |-> cached, parsed |-> TRUE,
          raised |-> TRUE, is_cache |-> FALSE]
    ELSE [nodes |-> ParseSnapshot(data),
          cache |-> [mtime |-> current_mtime, nodes |-> ParseSnapshot(data)],
          parsed |-> TRUE, raised |-> FALSE, is_cache |-> TRUE]

\* _load_backup_nodes: kind is how the snapshot file reads, data its content
\* when it is a mapping of mappings, cached is _SNAPSHOT_CACHE.  The result
\* holds the returned list, the cache afterwards, whether the call parsed the
\* file, whether it ended in an exception, and whether the returned list is
\* the list object the cache holds.
_load_backup_nodes(kind, data, current_mtime, yaml, cached) ==
    IF kind = "missing"
    THEN [nodes |-> <<>>, cache |-> EmptyCache, parsed |-> FALSE,
          raised |-> FALSE, is_cache |-> FALSE]
    ELSE IF cached.mtime = current_mtime
    THEN [nodes |-> cached.nodes, cache |-> cached, parsed |-> FALSE,
          raised |-> FALSE, is_cache |-> TRUE]
    ELSE IF ~yaml \/ kind \in {"unreadable", "unparseable"}
    THEN [nodes |-> <<>>, cache |-> cached, parsed |-> FALSE,
          raised |-> FALSE, is_cache |-> FALSE]
    ELSE IF kind \in {"not_mapping", "bad_section"}
    THEN [nodes |-> <<>>, cache |-> cached, parsed |-> TRUE,
          raised |-> TRUE, is_cache |-> FALSE]
    ELSE [nodes |-> ParseSnapshot(data),
          cache |-> [mtime |-> current_mtime, nodes |-> ParseSnapshot(data)],
          parsed |-> TRUE, raised |-> FALSE, is_cache |-> TRUE]

\* The list itself: what is written to a node is written to the caller's node
node_aliases(nodes) == [nodes |-> nodes, shared |-> TRUE]

\* The list build_backup_state works on: a copy of every node
node_copies(nodes) == [nodes |-> nodes, shared |-> FALSE]

(* ------------------------------ the server ---------------------------- *)

HealthzPath == <<"/", "h", "e", "a", "l", "t", "h", "z">>
StatusPath == <<"/", "s", "t", "a", "t", "u", "s">>
ReadyPath == <<"/", "r", "e", "a", "d", "y">>
StatePath == <<"/", "s", "t", "a", "t", "e">>
RootPath == <<"/">>
Query == <<"?", "t", "s", "=", "1">>

Paths ==
    {HealthzPath, StatusPath, ReadyPath, StatePath, RootPath,
     StatusPath \o Query, ReadyPath \o Query, StatePath \o Query}

startswith(text, prefix) ==
    Len(text) >= Len(prefix) /\ SubSeq(text, 1, Len(prefix)) = prefix

Sent(content_type, body, no_store) ==
    [status |-> 200, content_type |-> content_type, body |-> body, no_store |-> no_store]

\* A fixed response: nothing is read and nothing is computed
SendFixed(resp) ==
    /\ response' = resp
    /\ raised' = FALSE
    /\ parsed' = FALSE
    /\ UNCHANGED <<cache, lines, stages, backup, replay, computed>>

\* The handler ended in an exception: the server closes the connection
\* without a response and goes on serving
Fail(cache_after, parsed_now) ==
    /\ response' = NoResponse
    /\ raised' = TRUE
    /\ parsed' = parsed_now
    /\ cache' = cache_after
    /\ UNCHANGED <<lines, stages, backup, replay, computed>>

\* build_state_payload of the ComfyUI page and the response that carries it
ComfyState ==
    LET tail == comfy_tail_lines(log_file, log, TailBytes)
        enabled == backup_enabled(ENV_INFO)
        loaded == IF enabled
                  THEN _load_backup_nodes(snapshot_kind, manifest, mtime, yaml_ok, cache)
                  ELSE [nodes |-> <<>>, cache |-> cache, parsed |-> FALSE,
                        raised |-> FALSE, is_cache |-> FALSE]
        work == node_copies(loaded.nodes)
        payload == state_payload(ENV_INFO, work.nodes, tail.lines)
    IN  IF loaded.raised
        THEN Fail(loaded.cache, loaded.parsed)
        ELSE /\ lines' = tail.lines
             /\ stages' = payload.stages
             /\ backup' = payload.backup
             /\ replay' = replay_of(ENV_INFO, work.nodes, tail.lines)
             /\ computed' = TRUE
             /\ cache' = IF work.shared /\ loaded.is_cache
                         THEN [loaded.cache EXCEPT !.nodes = payload.backup.nodes]
                         ELSE loaded.cache
             /\ parsed' = loaded.parsed
             /\ raised' = FALSE
             /\ response' = Sent("application/json", "snapshot", TRUE)

\* build_state_payload of the AI Toolkit page and the response that carries it
AitkState ==
    LET tail == aitk_tail_lines(log_file, log, TailBytes)
    IN  IF tail.raised
        THEN Fail(cache, FALSE)
        ELSE /\ lines' = tail.lines
             /\ stages' = aitk_compute_stage_states(tail.lines)
             /\ computed' = TRUE
             /\ parsed' = FALSE
             /\ raised' = FALSE
             /\ response' = Sent("application/json", "snapshot", TRUE)
             /\ UNCHANGED <<cache, backup, replay>>

\* The branches of Handler.do_GET of either program: what the server does
\* with a request for path
route(path) ==
    IF startswith(path, HealthzPath)
    THEN SendFixed(Sent("text/plain", "ok", FALSE))
    ELSE IF startswith(path, StatusPath)
    THEN SendFixed(Sent("text/plain", "placeholder", FALSE))
    ELSE IF startswith(path, StatePath)
    THEN IF program = "comfy" THEN ComfyState ELSE AitkState
    ELSE SendFixed(Sent("text/html", "page", TRUE))

\* Handler.do_GET of either program, asked by some client that is not the page
do_GET(path) ==
    /\ route(path)
    /\ UNCHANGED <<program, ENV_INFO, manifest, log, files, client, loads, wrote>>

\* GET /state of the ComfyUI page
GetState ==
    /\ program = "comfy"
    /\ do_GET(StatePath)

InitStages ==
    /\ program \in {"comfy", "aitk"}
    /\ ENV_INFO \in Envs
    /\ program = "aitk" => ENV_INFO = [backup_repo |-> "None", restore_enabled |-> FALSE]
    /\ manifest = EmptySnapshot
    /\ log = <<>>
    /\ UsualFiles
    /\ NoClient
    /\ NoResult

NextStages == AppendStageLine \/ Compute

SpecStages == InitStages /\ [][NextStages]_vars

InitItems ==
    /\ program = "comfy"
    /\ ENV_INFO = [backup_repo |-> "org/backup", restore_enabled |-> TRUE]
    /\ manifest \in Snapshots
    /\ log = <<>>
    /\ UsualFiles
    /\ NoClient
    /\ NoResult

NextItems == AppendRestoreLine \/ Compute

SpecItems == InitItems /\ [][NextItems]_vars

InitPoll ==
    /\ program = "comfy"
    /\ ENV_INFO \in Envs
    /\ manifest = EmptySnapshot
    /\ log = <<>>
    /\ UsualFiles
    /\ NoClient
    /\ NoResult

NextPoll == AppendPollLine \/ GetState

SpecPoll == InitPoll /\ [][NextPoll]_vars

\* The lines the details are computed from.  ComfyUI page: the two stages
\* with a detail rule matched with and without something for the rule to
\* find, the same findings on a line that matches no stage, and lines that
\* match two stages.  AI Toolkit page likewise.
DetailLines ==
    { StageLine({4}),
      [StageLine({4}) EXCEPT !.clone = UrlB],
      [StageLine({4}) EXCEPT !.cnr = KeyC],
      CloneLine(UrlB),
      CustomLine,
      NodeLine(StageLine({6}), <<"http", ".git">>),
      [NodeLine(StageLine({4, 6}), <<"custom">>) EXCEPT !.clone = UrlB],
      NodeLine(OtherLine, <<"x">>),
      StageLine({1, 5}),
      OtherLine }

AitkDetailLines ==
    { RepoLine,
      WordsLine(StageLine({0}), {"updating repo"}),
      StageLine({3}),
      WordsLine(StageLine({3}), {"update_db"}),
      WordsLine(StageLine({0, 3}), {"cloning", "update_db"}),
      WordsLine(StageLine({1, 3}), {"installing ui dependencies"}),
      WordsLine(OtherLine, {"building ui"}),
      StageLine({1}) }

DetailSnapshot ==
    [git |-> <<GitEntry(UrlA, FALSE), GitEntry(UrlB, FALSE)>>, cnr |-> <<KeyC>>]

InitDetail ==
    /\ program \in {"comfy", "aitk"}
    /\ ENV_INFO \in {[backup_repo |-> "org/backup", restore_enabled |-> TRUE],
                     [backup_repo |-> "None", restore_enabled |-> FALSE]}
    /\ program = "aitk" => ENV_INFO = [backup_repo |-> "None", restore_enabled |-> FALSE]
    /\ manifest = (IF program = "comfy" THEN DetailSnapshot ELSE EmptySnapshot)
    /\ log = <<>>
    /\ UsualFiles
    /\ NoClient
    /\ NoResult

AppendDetailLine ==
    /\ Len(log) < MaxDetailLog
    /\ \E l \in (IF program = "comfy" THEN DetailLines ELSE AitkDetailLines) :
          AppendLine(l)

NextDetail == AppendDetailLine \/ Compute

SpecDetail == InitDetail /\ [][NextDetail]_vars

\* Either server with its log in any state, asked for any path
InitHttp ==
    /\ program \in {"comfy", "aitk"}
    /\ ENV_INFO \in Envs
    /\ program = "aitk" => ENV_INFO = [backup_repo |-> "None", restore_enabled |-> FALSE]
    /\ manifest = EmptySnapshot
    /\ log = <<>>
    /\ log_file \in {"missing", "denied", "open"}
    /\ snapshot_kind = "good"
    /\ mtime = 1
    /\ yaml_ok = TRUE
    /\ NoClient
    /\ NoResult

\* The provisioning script creates the log
CreateLog ==
    /\ log_file = "missing"
    /\ log_file' = "open"
    /\ UNCHANGED <<program, ENV_INFO, manifest, log, lines, stages, backup, replay, computed>>
    /\ UNCHANGED <<snapshot_kind, mtime, yaml_ok, server, client>>

AppendHttpLine ==
    /\ log_file # "missing"
    /\ Len(log) < MaxHttpLog
    /\ \E l \in (IF program = "comfy" THEN PollLines ELSE AitkStageLines) :
          AppendLine(l)

Request == \E path \in Paths : do_GET(path)

NextHttp == CreateLog \/ AppendHttpLine \/ Request

SpecHttp == InitHttp /\ [][NextHttp]_vars

\* The snapshots written while the page is polled
CacheSnapshots ==
    { [git |-> <<GitEntry(UrlA, FALSE), GitEntry(UrlB, FALSE)>>, cnr |-> <<KeyC>>],
      [git |-> <<>>, cnr |-> <<KeyC, KeyD>>],
      EmptySnapshot }

CacheLines == {CnrLine(KeyC), ErrLine(KeyC), OtherLine}

\* The ComfyUI page before the restore has fetched the snapshot file
InitCache ==
    /\ program = "comfy"
    /\ ENV_INFO \in Envs
    /\ manifest = EmptySnapshot
    /\ log = <<>>
    /\ log_file = "open"
    /\ snapshot_kind = "missing"
    /\ mtime = 0
    /\ yaml_ok \in BOOLEAN
    /\ NoClient
    /\ NoResult

\* The snapshot file is written: what is written may be a well-formed
\* snapshot or not, and the file's modification time moves on
WriteSnapshot ==
    /\ mtime < MaxWrites
    /\ \E kind \in {"unreadable", "unparseable", "not_mapping", "bad_section", "good"} :
          /\ snapshot_kind' = kind
          /\ manifest' \in (IF kind = "good" THEN CacheSnapshots ELSE {EmptySnapshot})
    /\ mtime' = mtime + 1
    /\ UNCHANGED <<program, ENV_INFO, log, lines, stages, backup, replay, computed>>
    /\ UNCHANGED <<log_file, yaml_ok, server, client>>

DeleteSnapshot ==
    /\ snapshot_kind # "missing"
    /\ snapshot_kind' = "missing"
    /\ manifest' = EmptySnapshot
    /\ UNCHANGED <<program, ENV_INFO, log, lines, stages, backup, replay, computed>>
    /\ UNCHANGED <<log_file, mtime, yaml_ok, server, client>>

AppendCacheLine ==
    /\ Len(log) < MaxCacheLog
    /\ \E l \in CacheLines : AppendLine(l)

NextCache == WriteSnapshot \/ DeleteSnapshot \/ AppendCacheLine \/ GetState

SpecCache == InitCache /\ [][NextCache]_vars

(* ------------------ the handler, statement by statement --------------- *)

\* socketserver.TCPServer with two requests handled at a time
may_accept_threaded(running) == Len(running) < 2

\* socketserver.TCPServer: serve_forever handles a request to its end before
\* it accepts the next
may_accept(running) == running = <<>>

\* The server accepts GET /state: the handler is at SNAPSHOT_PATH.exists()
Accept ==
    /\ may_accept(loads.running)
    /\ loads.accepted < MaxRequests
    /\ loads' = [running |-> Append(loads.running,
                                    [id |-> loads.accepted + 1, pc |-> "exists",
                                     mtime |-> None, nodes |-> <<>>, parsed |-> FALSE]),
                 accepted |-> loads.accepted + 1]
    /\ UNCHANGED <<program, ENV_INFO, manifest, log, lines, stages, backup, replay, computed>>
    /\ UNCHANGED <<files, client, cache, raised, parsed, response, wrote>>

Without(running, i) ==
    SubSeq(running, 1, i - 1) \o SubSeq(running, i + 1, Len(running))

\* Execution i goes on to pc, its local values as given
Goes(i, pc, local_mtime, local_nodes, has_parsed) ==
    loads' = [loads EXCEPT !.running[i] =
                 [@ EXCEPT !.pc = pc, !.mtime = local_mtime, !.nodes = local_nodes,
                           !.parsed = has_parsed]]

\* Execution i ends in an exception
Raises(i) ==
    /\ loads' = [loads EXCEPT !.running = Without(loads.running, i)]
    /\ raised' = TRUE
    /\ parsed' = loads.running[i].parsed
    /\ response' = NoResponse
    /\ UNCHANGED <<cache, wrote, lines, stages, backup, replay, computed>>

\* One statement of _load_backup_nodes in execution i, or the rest of the
\* handler once it has returned
Step(i) ==
    LET e == loads.running[i]
    IN  /\ \/ /\ e.pc = "exists"
              /\ IF snapshot_kind = "missing"
                 THEN /\ cache' = [cache EXCEPT !.mtime = None]
                      /\ wrote' = [wrote EXCEPT !.mtime = e.id]
                      /\ Goes(i, "reset", e.mtime, e.nodes, e.parsed)
                 ELSE /\ Goes(i, "stat", e.mtime, e.nodes, e.parsed)
                      /\ UNCHANGED <<cache, wrote>>
              /\ UNCHANGED <<raised, parsed, response, lines, stages, backup, replay, computed>>
           \/ /\ e.pc = "reset"
              /\ cache' = [cache EXCEPT !.nodes = <<>>]
              /\ wrote' = [wrote EXCEPT !.nodes = e.id]
              /\ Goes(i, "respond", e.mtime, <<>>, e.parsed)
              /\ UNCHANGED <<raised, parsed, response, lines, stages, backup, replay, computed>>
           \/ /\ e.pc = "stat"
              /\ IF snapshot_kind = "missing"
                 THEN Raises(i)
                 ELSE /\ IF cache.mtime = mtime
                         THEN Goes(i, "respond", mtime, cache.nodes, e.parsed)
                         ELSE Goes(i, "read", mtime, e.nodes, e.parsed)
                      /\ UNCHANGED <<cache, wrote, raised, parsed, response,
                                     lines, stages, backup, replay, computed>>
           \/ /\ e.pc = "read"
              /\ IF yaml_ok /\ snapshot_kind \in {"not_mapping", "bad_section"}
                 THEN Raises(i)
                 ELSE /\ IF yaml_ok /\ snapshot_kind = "good"
                         THEN Goes(i, "store_nodes", e.mtime, ParseSnapshot(manifest), TRUE)
                         ELSE Goes(i, "respond", e.mtime, <<>>, e.parsed)
                      /\ UNCHANGED <<cache, wrote, raised, parsed, response,
                                     lines, stages, backup, replay, computed>>
           \/ /\ e.pc = "store_nodes"
              /\ cache' = [cache EXCEPT !.nodes = e.nodes]
              /\ wrote' = [wrote EXCEPT !.nodes = e.id]
              /\ Goes(i, "store_mtime", e.mtime, e.nodes, e.parsed)
              /\ UNCHANGED <<raised, parsed, response, lines, stages, backup, replay, computed>>
           \/ /\ e.pc = "store_mtime"
              /\ cache' = [cache EXCEPT !.mtime = e.mtime]
              /\ wrote' = [wrote EXCEPT !.mtime = e.id]
              /\ Goes(i, "respond", e.mtime, e.nodes, e.parsed)
              /\ UNCHANGED <<raised, parsed, response, lines, stages, backup, replay, computed>>
           \/ /\ e.pc = "respond"
              /\ LET tail == comfy_tail_lines(log_file, log, TailBytes)
                     work == node_copies(e.nodes)
                     payload == state_payload(ENV_INFO, work.nodes, tail.lines)
                 IN  /\ lines' = tail.lines
                     /\ stages' = payload.stages
                     /\ backup' = payload.backup
                     /\ replay' = replay_of(ENV_INFO, work.nodes, tail.lines)
              /\ computed' = TRUE
              /\ parsed' = e.parsed
              /\ raised' = FALSE
              /\ response' = Sent("application/json", "snapshot", TRUE)
              /\ loads' = [loads EXCEPT !.running = Without(loads.running, i)]
              /\ UNCHANGED <<cache, wrote>>
        /\ UNCHANGED <<program, ENV_INFO, manifest, log, files, client>>

Handle == \E i \in 1..Len(loads.running) : Step(i)

\* The ComfyUI page with the backup feature enabled, the restore writing and
\* deleting the snapshot file while requests are handled
InitSerial ==
    /\ program = "comfy"
    /\ ENV_INFO = [backup_repo |-> "org/backup", restore_enabled |-> TRUE]
    /\ manifest = EmptySnapshot
    /\ log = <<>>
    /\ log_file = "open"
    /\ snapshot_kind = "missing"
    /\ mtime = 0
    /\ yaml_ok = TRUE
    /\ NoClient
    /\ NoResult

NextSerial == WriteSnapshot \/ DeleteSnapshot \/ Accept \/ Handle

SpecSerial == InitSerial /\ [][NextSerial]_vars

(* -------------------------------- the page ---------------------------- *)

\* What a request of the page comes to: status 0 is a request that failed
\* (fetch rejects), broken a body that cannot be read or decoded
Outcome(status, body, broken) == [status |-> status, body |-> body, broken |-> broken]

Outcomes ==
    {Outcome(0, <<>>, FALSE)}
        \cup {Outcome(200, body, FALSE) :
                body \in {<<"placeholder">>, <<"placeholder", " ">>, <<"ok">>, <<"page">>, <<>>}}
        \cup {Outcome(200, <<>>, TRUE)}
        \cup {Outcome(status, <<>>, FALSE) : status \in {404, 502, 500, 503}}

\* probeReady navigating on every status that is not 200
probeReady_strict(prog, o) ==
    IF o.status = 0 THEN "retry"
    ELSE IF o.status = 200
    THEN IF o.broken THEN "retry"
         ELSE IF strip(o.body) # <<"placeholder">> THEN "/"
         ELSE "retry"
    ELSE "/"

\* probeReady of either page: where it navigates to, or "retry" when it ends
\* in window.setTimeout(probeReady, 2000)
probeReady(prog, o) ==
    IF o.status = 0 THEN "retry"
    ELSE IF o.status = 200
    THEN IF o.broken THEN "retry"
         ELSE IF strip(o.body) # <<"placeholder">> THEN "/"
         ELSE "retry"
    ELSE IF o.status = 404 THEN "/"
    ELSE IF o.status = 502 THEN IF prog = "comfy" THEN "/502.html" ELSE "/"
    ELSE "retry"

\* fetchState of either page: the finally clause sets the timer whatever the
\* request came to
fetchState(prog, o) == "retry"

\* The page has just been loaded: both functions are about to be called
InitClient ==
    /\ program \in {"comfy", "aitk"}
    /\ ENV_INFO = [backup_repo |-> "None", restore_enabled |-> FALSE]
    /\ manifest = EmptySnapshot
    /\ log = <<>>
    /\ UsualFiles
    /\ NoResult
    /\ probe = "scheduled"
    /\ fetch = "scheduled"
    /\ probes = 0
    /\ fetches = 0
    /\ navigations = 0
    /\ location = "wait page"

\* probeReady is called and sends its request
ProbeSend ==
    /\ location = "wait page"
    /\ probe = "scheduled"
    /\ probes < MaxProbes
    /\ probe' = "waiting"
    /\ probes' = probes + 1
    /\ UNCHANGED <<fetch, fetches, navigations, location>>
    /\ UNCHANGED <<program, ENV_INFO, manifest, log, lines, stages, backup, replay, computed>>
    /\ UNCHANGED <<files, server>>

\* The request of probeReady comes to o
ProbeReturn(o) ==
    /\ location = "wait page"
    /\ probe = "waiting"
    /\ IF probeReady(program, o) = "retry"
       THEN /\ probe' = "scheduled"
            /\ UNCHANGED <<navigations, location>>
       ELSE /\ probe' = "navigated"
            /\ navigations' = navigations + 1
            /\ location' = probeReady(program, o)
    /\ UNCHANGED <<probes, fetch, fetches>>
    /\ UNCHANGED <<program, ENV_INFO, manifest, log, lines, stages, backup, replay, computed>>
    /\ UNCHANGED <<files, server>>

\* fetchState is called and sends its request
FetchSend ==
    /\ location = "wait page"
    /\ fetch = "scheduled"
    /\ fetches < MaxFetches
    /\ fetch' = "waiting"
    /\ fetches' = fetches + 1
    /\ UNCHANGED <<probe, probes, navigations, location>>
    /\ UNCHANGED <<program, ENV_INFO, manifest, log, lines, stages, backup, replay, computed>>
    /\ UNCHANGED <<files, server>>

\* The request of fetchState comes to o
FetchReturn(o) ==
    /\ location = "wait page"
    /\ fetch = "waiting"
    /\ fetch' = (IF fetchState(program, o) = "retry" THEN "scheduled" ELSE "stopped")
    /\ UNCHANGED <<probe, probes, fetches, navigations, location>>
    /\ UNCHANGED <<program, ENV_INFO, manifest, log, lines, stages, backup, replay, computed>>
    /\ UNCHANGED <<files, server>>

ProbeAnswered == \E o \in Outcomes : ProbeReturn(o)

FetchAnswered == \E o \in Outcomes : FetchReturn(o)

NextClient == ProbeSend \/ ProbeAnswered \/ FetchSend \/ FetchAnswered

SpecClient == InitClient /\ [][NextClient]_vars

(* ------------- the page and the server that served the page ----------- *)

\* The URL that probeReady of the page fetches: '/ready?ts=' + Date.now() in
\* the ComfyUI page, '/status?ts=' + Date.now() in the AI Toolkit page
probe_url(prog) == IF prog = "comfy" THEN ReadyPath \o Query ELSE StatusPath \o Query

\* The URL that fetchState of either page fetches
state_url(prog) == StatePath \o Query

\* What the page gets of a response of the server: a handler that ended in
\* an exception closes the connection and the fetch rejects
received(resp) ==
    IF resp = NoResponse
    THEN Outcome(0, <<>>, FALSE)
    ELSE Outcome(resp.status, <<resp.body>>, FALSE)

\* The page was loaded from the wait-page server, whose log is being written
InitWait ==
    /\ program \in {"comfy", "aitk"}
    /\ ENV_INFO = [backup_repo |-> "None", restore_enabled |-> FALSE]
    /\ manifest = EmptySnapshot
    /\ log = <<>>
    /\ UsualFiles
    /\ NoResult
    /\ probe = "scheduled"
    /\ fetch = "scheduled"
    /\ probes = 0
    /\ fetches = 0
    /\ navigations = 0
    /\ location = "wait page"

\* The provisioning script writes a line to the log
AppendWaitLine ==
    /\ Len(log) < MaxWaitLog
    /\ \E l \in (IF program = "comfy" THEN PollLines ELSE AitkStageLines) :
          AppendLine(l)

\* The wait-page server answers the probe of the page and probeReady goes on
\* with the answer
ProbeServed ==
    /\ location = "wait page"
    /\ probe = "waiting"
    /\ route(probe_url(program))
    /\ LET o == received(response')
       IN  IF probeReady(program, o) = "retry"
           THEN /\ probe' = "scheduled"
                /\ UNCHANGED <<navigations, location>>
           ELSE /\ probe' = "navigated"
                /\ navigations' = navigations + 1
                /\ location' = probeReady(program, o)
    /\ UNCHANGED <<probes, fetch, fetches>>
    /\ UNCHANGED <<program, ENV_INFO, manifest, log, files, loads, wrote>>

\* The wait-page server answers the poll of the page and fetchState goes on
\* with the answer
FetchServed ==
    /\ location = "wait page"
    /\ fetch = "waiting"
    /\ route(state_url(program))
    /\ fetch' = (IF fetchState(program, received(response')) = "retry"
                 THEN "scheduled" ELSE "stopped")
    /\ UNCHANGED <<probe, probes, fetches, navigations, location>>
    /\ UNCHANGED <<program, ENV_INFO, manifest, log, files, loads, wrote>>

NextWait == AppendWaitLine \/ ProbeSend \/ ProbeServed \/ FetchSend \/ FetchServed

SpecWait == InitWait /\ [][NextWait]_vars

(* ---------------------- properties of the stages ---------------------- *)

Indices(sts) == 0..(Len(sts) - 1)

StatusOf(sts, i) == sts[i + 1].status

Skipped(sts, i) == "skipped" \in DOMAIN sts[i + 1] /\ sts[i + 1].skipped

ActiveSet(sts) == {i \in Indices(sts) : StatusOf(sts, i) = "active"}

\* The stages of sts that are not skipped and have a pattern matching the line
OpenMatches(sts, line) == {i \in Indices(sts) : i \in line.st /\ ~Skipped(sts, i)}

Lowest(S) == CHOOSE i \in S : \A j \in S : i <= j

\* The positions of the lines that match a stage that is not skipped
MatchingLines(sts, ls) == {k \in 1..Len(ls) : OpenMatches(sts, ls[k]) # {}}

Front(ls) == SubSeq(ls, 1, Len(ls) - 1)

Last(ls) == ls[Len(ls)]

\* C1 as stated: when stage i is active, every earlier stage is done (unless
\* skipped) and every later stage, without exception, is pending.
C1_LaterAllPending ==
    computed =>
        \A i \in ActiveSet(stages) :
            /\ \A j \in Indices(stages) :
                  j < i => Skipped(stages, j) \/ StatusOf(stages, j) = "done"
            /\ \A j \in Indices(stages) : j > i => StatusOf(stages, j) = "pending"

\* C1 amended: when stage i is active, every earlier stage is done, and every
\* later stage is pending unless it is skipped, in which case it is done.
C1_ActiveSplitsPipeline ==
    computed =>
        \A i \in ActiveSet(stages) :
            /\ \A j \in Indices(stages) : j < i => StatusOf(stages, j) = "done"
            /\ \A j \in Indices(stages) :
                  j > i => StatusOf(stages, j) =
                              (IF Skipped(stages, j) THEN "done" ELSE "pending")

\* A line moved the active stage past the first one, skipped stages after it
C1_Witness ==
    /\ computed
    /\ program = "comfy"
    /\ lines # <<>>
    /\ \E i \in ActiveSet(stages) :
          /\ i > 0
          /\ \E j \in Indices(stages) : j > i /\ Skipped(stages, j)
          /\ \E j \in Indices(stages) : j > i /\ ~Skipped(stages, j)

\* C2: every result has exactly one active stage, and when no line matches a
\* pattern of a stage that is not skipped it is the first stage not skipped.
C2_ExactlyOneActive ==
    computed =>
        /\ Cardinality(ActiveSet(stages)) = 1
        /\ MatchingLines(stages, lines) = {} =>
              ActiveSet(stages) =
                  {Lowest({i \in Indices(stages) : ~Skipped(stages, i)})}

\* Lines were read, one of them matches a skipped stage, none an open stage
C2_Witness ==
    /\ computed
    /\ lines # <<>>
    /\ MatchingLines(stages, lines) = {}
    /\ \E k \in 1..Len(lines) : lines[k].st # {}
    /\ ActiveSet(stages) = {0}

\* C3: a skipped stage (backup-manager and backup-nodes when the backup
\* feature is not enabled, and no other) is done in every result and never
\* active, and a result computed after one more line that matches only skipped
\* stages has the same active stage as the result before it.
C3_SkippedStayDone ==
    /\ [](computed /\ program = "comfy" =>
            \A i \in Indices(stages) :
                /\ Skipped(stages, i) <=>
                      (~backup.enabled /\ stages[i + 1].id \in {"backup-manager", "backup-nodes"})
                /\ Skipped(stages, i) => StatusOf(stages, i) = "done")
    /\ [][(/\ computed /\ computed'
           /\ lines' # <<>> /\ Front(lines') = lines
           /\ Last(lines').st # {}
           /\ OpenMatches(stages', Last(lines')) = {})
          => ActiveSet(stages') = ActiveSet(stages)]_vars

\* A line that matches only a skipped stage was read after a line that had
\* moved the active stage
C3_Witness ==
    /\ computed
    /\ Len(lines) >= 2
    /\ \E i \in Indices(stages) : Skipped(stages, i) /\ i \in Last(lines).st
    /\ OpenMatches(stages, Last(lines)) = {}
    /\ \E i \in ActiveSet(stages) : i > 0

\* C4: the active stage is the first open stage matched by the last line that
\* matches an open stage, also when an earlier line matched a later stage,
\* which is then pending.
C4_LastMatchWins ==
    computed /\ MatchingLines(stages, lines) # {} =>
        LET k == CHOOSE m \in MatchingLines(stages, lines) :
                    \A n \in MatchingLines(stages, lines) : n <= m
            a == Lowest(OpenMatches(stages, lines[k]))
        IN  /\ ActiveSet(stages) = {a}
            /\ \A n \in MatchingLines(stages, lines) :
                  \A j \in OpenMatches(stages, lines[n]) :
                      j > a => StatusOf(stages, j) = "pending"

\* A line of an earlier stage follows a line of a later stage
C4_Witness ==
    /\ computed
    /\ \E m, n \in MatchingLines(stages, lines) :
          /\ m < n
          /\ n = Len(lines)
          /\ Lowest(OpenMatches(stages, lines[m])) > Lowest(OpenMatches(stages, lines[n]))
          /\ ActiveSet(stages) = {Lowest(OpenMatches(stages, lines[n]))}
          /\ StatusOf(stages, Lowest(OpenMatches(stages, lines[m]))) = "pending"

\* C5: when a result with stage k active is followed by the result on the same
\* lines and one more line whose first matching open stage is k+1, the new
\* result has k+1 active, k done and every other status as before.
C5_AppendNextStage ==
    [][\A k \in Indices(stages) :
          (/\ computed /\ computed'
           /\ lines' # <<>> /\ Front(lines') = lines
           /\ k \in ActiveSet(stages)
           /\ OpenMatches(stages', Last(lines')) # {}
           /\ Lowest(OpenMatches(stages', Last(lines'))) = k + 1)
          => /\ ActiveSet(stages') = {k + 1}
             /\ StatusOf(stages', k) = "done"
             /\ \A j \in Indices(stages) :
                   j \notin {k, k + 1} => StatusOf(stages', j) = StatusOf(stages, j)]_vars

\* The last line read matches the stage after the one active without it
C5_Witness ==
    /\ computed
    /\ Len(lines) >= 2
    /\ OpenMatches(stages, Last(lines)) # {}
    /\ LET before == IF program = "comfy"
                     THEN compute_stage_states(Front(lines), backup)
                     ELSE aitk_compute_stage_states(Front(lines))
       IN  /\ ActiveSet(before) = {Lowest(OpenMatches(stages, Last(lines))) - 1}
           /\ ActiveSet(stages) = {Lowest(OpenMatches(stages, Last(lines)))}
           /\ \E j \in Indices(stages) : Skipped(stages, j)

(* ----------------------- properties of the polls ---------------------- *)

ActiveIndex(sts) == CHOOSE i \in ActiveSet(sts) : TRUE

\* From one response to the next the active stage does not move back and no
\* done stage stops being done
Monotonic(before, after) ==
    /\ ActiveIndex(after) >= ActiveIndex(before)
    /\ \A i \in Indices(before) :
          StatusOf(before, i) = "done" => StatusOf(after, i) = "done"

\* The whole file lies inside the tail window
Fits(file) == Len(file) * BytesPerLine <= TailBytes

\* The lines that match an open stage appear in the order of the stages
InStageOrder(sts, file) ==
    \A m, n \in MatchingLines(sts, file) :
        m < n => Lowest(OpenMatches(sts, file[m])) <= Lowest(OpenMatches(sts, file[n]))

\* C6 as stated: over any appends and polls of a log that is only appended
\* to, the active index never decreases from one poll to a later one and a
\* stage once done stays done.
C6_MonotonicPerPoll ==
    [][computed /\ computed' => Monotonic(stages, stages')]_vars

\* C6 amended: the same, for a log that still fits in the tail window and
\* whose matching lines appear in stage order.
C6_MonotonicWhileOrdered ==
    [][(computed /\ computed' /\ Fits(log') /\ InStageOrder(stages', log'))
          => Monotonic(stages, stages')]_vars

\* A poll read the whole of an ordered log in which the stage advanced
C6_Witness ==
    /\ computed
    /\ Fits(log)
    /\ lines = log
    /\ InStageOrder(stages, log)
    /\ \E m, n \in MatchingLines(stages, log) :
          m < n /\ Lowest(OpenMatches(stages, log[m])) < Lowest(OpenMatches(stages, log[n]))
    /\ ActiveIndex(stages) >= 2

(* --------------------- properties of the item replay ------------------ *)

\* replay[k] is the state before line k and replay[k + 1] the state after it
ReplaySteps == 1..(Len(replay) - 1)

NodeIndices == 0..(Len(backup.nodes) - 1)

NodeStatus(st, n) == st.nodes[n + 1].status

\* The event a line is, by the shapes of the item tracker
IsBegin(line) == line.clone # <<>> \/ line.cnr # <<>>

IsSkip(line) == ~IsBegin(line) /\ line.skip # <<>>

IsError(line) == ~IsBegin(line) /\ line.skip = <<>> /\ line.err # <<>>

IsFailList(line) ==
    ~IsBegin(line) /\ line.skip = <<>> /\ line.err = <<>> /\ line.fail # <<>>

IsAllDone(line) ==
    /\ ~IsBegin(line) /\ line.skip = <<>> /\ line.err = <<>> /\ line.fail = <<>>
    /\ line.done

\* The line is a begin event for node n: by its locator or by its name
BeginsNode(line, n) ==
    LET node == backup.nodes[n + 1]
    IN  \/ /\ line.clone # <<>>
           /\ node.repo # <<>>
           /\ _normalize_repo(line.clone) = node.repo
        \/ /\ line.clone = <<>>
           /\ line.cnr # <<>>
           /\ strip(line.cnr) = node.key

\* The line is a skip event naming the key of node n
SkipNames(line, n) == IsSkip(line) /\ strip(line.skip) = backup.nodes[n + 1].key

\* The key of node n is an entry of the bulk failure list of the line
Listed(line, n) ==
    \E j \in 1..Len(line.fail) : strip(line.fail[j]) = backup.nodes[n + 1].key

\* C7 as stated: during the replay, an item that is done or failed keeps its
\* status through every later event other than the all-done marker.
C7_TerminalStatusKept ==
    \A k \in ReplaySteps :
        \A n \in NodeIndices :
            (NodeStatus(replay[k], n) \in {"done", "failed"} /\ ~IsAllDone(lines[k]))
                => NodeStatus(replay[k + 1], n) = NodeStatus(replay[k], n)

\* C8 as stated: for every item, the first included, a begin event followed
\* at once by a skip event naming its key leaves the item done.
C8_BeginThenSkipIsDone ==
    \A k \in ReplaySteps :
        \A n \in NodeIndices :
            (/\ k + 1 \in ReplaySteps
             /\ BeginsNode(lines[k], n)
             /\ SkipNames(lines[k + 1], n))
                => NodeStatus(replay[k + 2], n) = "done"

\* C9 as stated: a bulk failure list sets exactly the items whose keys are
\* listed to failed, whatever their position, and changes no other item.
C9_FailListExact ==
    \A k \in ReplaySteps :
        IsFailList(lines[k]) =>
            \A n \in NodeIndices :
                NodeStatus(replay[k + 1], n) =
                    (IF Listed(lines[k], n) THEN "failed" ELSE NodeStatus(replay[k], n))

\* C10: an all-done marker sets the pending and installing items to done,
\* leaves the others, and clears the installing pointer: right after it no
\* item is installing, and when no begin event for a known item follows, the
\* promotion after the scan changes nothing.
C10_AllDoneMarker ==
    \A k \in ReplaySteps :
        IsAllDone(lines[k]) =>
            /\ \A n \in NodeIndices :
                  /\ NodeStatus(replay[k + 1], n) =
                        (IF NodeStatus(replay[k], n) \in {"pending", "installing"}
                         THEN "done" ELSE NodeStatus(replay[k], n))
                  /\ NodeStatus(replay[k + 1], n) # "installing"
            /\ replay[k + 1].active_idx = None
            /\ (\A j \in (k + 1)..Len(lines) :
                    \A n \in NodeIndices : ~BeginsNode(lines[j], n))
                  => /\ replay[Len(replay)].active_idx = None
                     /\ backup.nodes = replay[Len(replay)].nodes

\* The marker came when one item was installing, one failed and one pending
C10_Witness ==
    /\ computed
    /\ Len(lines) = 3
    /\ IsAllDone(lines[3])
    /\ \E a, b, c \in NodeIndices :
          /\ NodeStatus(replay[3], a) = "installing"
          /\ NodeStatus(replay[3], b) = "failed"
          /\ NodeStatus(replay[3], c) = "pending"
          /\ replay[3].active_idx = a
          /\ NodeStatus(backup, a) = "done"
          /\ NodeStatus(backup, b) = "failed"
          /\ NodeStatus(backup, c) = "done"

\* The text names node n: by its key or by its normalized locator
Names(text, n) ==
    LET node == backup.nodes[n + 1]
    IN  \/ strip(text) = node.key
        \/ node.repo # <<>> /\ _normalize_repo(strip(text)) = node.repo

\* C11 as stated: an error event naming an item by its key or by its
\* normalized locator sets the item to failed, whatever its position.
C11_ErrorMarksFailed ==
    \A k \in ReplaySteps :
        \A n \in NodeIndices :
            (IsError(lines[k]) /\ Names(lines[k].err, n))
                => NodeStatus(replay[k + 1], n) = "failed"

\* The line is an event whose key names no item of the manifest
NamesNoItem(line) ==
    IF line.clone # <<>>
    THEN \A n \in NodeIndices : ~BeginsNode(line, n)
    ELSE IF line.cnr # <<>>
    THEN \A n \in NodeIndices : ~BeginsNode(line, n)
    ELSE IF line.skip # <<>>
    THEN \A n \in NodeIndices : ~Names(line.skip, n)
    ELSE IF line.err # <<>>
    THEN \A n \in NodeIndices : ~Names(line.err, n)
    ELSE /\ line.fail # <<>>
         /\ \A j \in 1..Len(line.fail) : \A n \in NodeIndices : ~Names(line.fail[j], n)

\* C12: an event line whose key names no manifest item changes no status and
\* leaves the installing pointer, an entry of a bulk failure list that names
\* no item changes nothing either, and the replay goes on to the last line.
C12_UnknownKeyIgnored ==
    /\ replay # <<>> => Len(replay) = Len(lines) + 1
    /\ \A k \in ReplaySteps :
          /\ NamesNoItem(lines[k]) => replay[k + 1] = replay[k]
          /\ IsFailList(lines[k]) =>
                /\ replay[k + 1].active_idx = replay[k].active_idx
                /\ \A n \in NodeIndices :
                      (\A j \in 1..Len(lines[k].fail) : ~Names(lines[k].fail[j], n))
                          => NodeStatus(replay[k + 1], n) = NodeStatus(replay[k], n)

\* An item is installing when a begin event for an unknown key is read, and
\* lines follow it
C12_Witness ==
    /\ computed
    /\ Len(lines) = 3
    /\ Len(replay) = 4
    /\ IsBegin(lines[2])
    /\ NamesNoItem(lines[2])
    /\ replay[2].active_idx # None
    /\ NodeStatus(replay[2], replay[2].active_idx) = "installing"
    /\ replay[3] = replay[2]
    /\ replay[4] # replay[3]

(* ---------------------- properties of the server ---------------------- *)

FirstOpen(sts) == Lowest({i \in Indices(sts) : ~Skipped(sts, i)})

\* C13: in both programs no request ends in an exception of tail_lines, for
\* any state of the log file: a log that cannot be opened reads as no lines,
\* and a result on no lines has the first stage that is not skipped active.
C13_TailNeverRaises ==
    /\ ~raised
    /\ computed /\ log_file # "open" => lines = <<>>
    /\ computed /\ lines = <<>> => ActiveSet(stages) = {FirstOpen(stages)}

Probe == Sent("text/plain", "placeholder", FALSE)

\* The response the routes are stated to give
Stated(path) ==
    IF startswith(path, HealthzPath) THEN Sent("text/plain", "ok", FALSE)
    ELSE IF startswith(path, StatusPath) \/ startswith(path, ReadyPath) THEN Probe
    ELSE IF startswith(path, StatePath) THEN Sent("application/json", "snapshot", TRUE)
    ELSE Sent("text/html", "page", TRUE)

\* C18: on both servers GET /status and GET /ready answer with the plain-text
\* probe response, GET /healthz with the liveness response, GET /state with the
\* JSON snapshot marked no-store, and GET / with the static page.
C18_Routes ==
    [][\A path \in Paths : do_GET(path) => response' = Stated(path)]_vars

(* --------------------- properties of the tail reader ------------------ *)

\* The units of the file, each with the line it belongs to
Bytes(file) ==
    [b \in 1..(Len(file) * BytesPerLine) |-> ((b - 1) \div BytesPerLine) + 1]

\* The lines decoded from the last n units of the file: a line all of whose
\* units are among them is itself, a line cut by the start of the read is what
\* is left of it
LinesOfLast(file, n) ==
    LET all == Bytes(file)
        kept == SubSeq(all, Len(all) - n + 1, Len(all))
        first == kept[1]
        count(k) == Cardinality({b \in 1..Len(kept) : kept[b] = k})
    IN  [i \in 1..(Len(file) - first + 1) |->
            IF count(first + i - 1) = BytesPerLine
            THEN file[first + i - 1]
            ELSE partial_line]

\* C14: a poll of the ComfyUI page whose log opens reads every line of the
\* file, oldest first, when the file is at most the window long, and otherwise
\* exactly the lines decoded from the last window-many bytes of the file.
C14_TailWindow ==
    [][(program = "comfy" /\ log_file = "open" /\ do_GET(StatePath)) =>
          IF Len(log) * BytesPerLine <= TailBytes
          THEN lines' = log
          ELSE lines' = LinesOfLast(log, TailBytes)]_vars

\* A poll read a file shorter than the window whole, and a later poll of the
\* file grown past the window read its last lines only
C14_Witness ==
    /\ computed
    /\ Len(log) * BytesPerLine > TailBytes
    /\ lines = LinesOfLast(log, TailBytes)
    /\ Len(lines) < Len(log)
    /\ \E k \in 1..Len(lines) : lines[k] # partial_line

(* ------------------ properties of the manifest cache ------------------ *)

\* A poll of the ComfyUI page with the backup feature enabled
EnabledPoll == program = "comfy" /\ backup_enabled(ENV_INFO) /\ do_GET(StatePath)

\* The snapshot file does not load: it is missing, cannot be read, cannot be
\* parsed, parses to something that is not a mapping of mappings, or the yaml
\* module cannot be imported when the file has to be parsed
LoadFails ==
    \/ snapshot_kind # "good"
    \/ ~yaml_ok /\ cache.mtime # mtime

\* The nodes of a backup state without their statuses
ItemsOf(backup_state) ==
    [i \in 1..Len(backup_state.nodes) |-> [backup_state.nodes[i] EXCEPT !.status = ""]]

\* C15: a poll never ends in an exception of _load_backup_nodes, and when the
\* snapshot file does not load the poll has no items and the cache (mtime and
\* items) is as it was before the poll.
C15_LoadNeverRaises ==
    [][EnabledPoll =>
          /\ ~raised'
          /\ LoadFails => (backup'.nodes = <<>> /\ cache' = cache)]_vars

\* What the snapshot file gives when it loads
CurrentItems ==
    IF backup_enabled(ENV_INFO) /\ snapshot_kind = "good" /\ yaml_ok
    THEN ParseSnapshot(manifest)
    ELSE <<>>

\* C16: the items in the cache never carry a status, and every poll that
\* answers returns the stages and items computed from the tail of the log, the
\* items of the snapshot file and the environment alone, every item pending
\* before the first line is read.
C16_PollsStateless ==
    /\ [](\A i \in 1..Len(cache.nodes) : cache.nodes[i].status = "")
    /\ [][(program = "comfy" /\ do_GET(StatePath) /\ ~raised') =>
             /\ lines' = tail_lines(log, TailBytes)
             /\ backup' = build_backup_state(ENV_INFO, CurrentItems, lines')
             /\ stages' = compute_stage_states(lines', backup')
             /\ replay' # <<>> =>
                   \A n \in 1..Len(replay'[1].nodes) :
                       replay'[1].nodes[n].status = "pending"]_vars

\* A poll served from the cache an earlier poll filled: the line that began
\* item c has left the tail of the log, and every item is pending
C16_Witness ==
    /\ computed
    /\ ~parsed
    /\ ~raised
    /\ cache.nodes # <<>>
    /\ cache.mtime = mtime
    /\ Len(log) * BytesPerLine > TailBytes
    /\ log[1] = CnrLine(KeyC)
    /\ lines = tail_lines(log, TailBytes)
    /\ \A n \in 1..Len(backup.nodes) : backup.nodes[n].status = "pending"

C20_MessagePrecedence ==
    computed /\ program = "comfy" =>
        backup.message =
            IF ENV_INFO.backup_repo = "None" THEN <<"not set">>
            ELSE IF ~ENV_INFO.restore_enabled THEN <<"configured but disabled">>
            ELSE IF Len(backup.nodes) = 0 THEN <<"waiting for manifest">>
            ELSE <<"processed",
                   Cardinality({n \in 1..Len(backup.nodes) : backup.nodes[n].status = "done"}),
                   Len(backup.nodes)>>

\* Three items, one failed and two pending: none is counted
C20_Witness ==
    /\ computed
    /\ Len(backup.nodes) = 3
    /\ \E n \in 1..3 : backup.nodes[n].status = "failed"
    /\ \E n \in 1..3 : backup.nodes[n].status = "pending"
    /\ backup.message = <<"processed", 0, 3>>

(* ------------------------ properties of the page ---------------------- *)

NetworkError(o) == o.status = 0 \/ o.broken

\* The outcomes after which the probe loop is stated to go on
ProbeGoesOn(o) ==
    \/ NetworkError(o)
    \/ o.status = 200 /\ strip(o.body) = <<"placeholder">>
    \/ o.status \notin {200, 404, 502}

\* C19: after a 200 response whose body is 'placeholder', a response with a
\* status other than 200, 404 and 502, or a network error, the probe loop
\* schedules another probe; after any other outcome it navigates away; it
\* navigates at most once and sends no probe afterwards; and the state-fetch
\* loop schedules its next fetch after every outcome.
C19_ProbeAndFetchLoops ==
    /\ [](navigations <= 1 /\ (probe = "navigated" <=> navigations = 1))
    /\ [][\A o \in Outcomes : ProbeReturn(o) =>
             IF ProbeGoesOn(o)
             THEN probe' = "scheduled" /\ navigations' = navigations
             ELSE probe' = "navigated" /\ navigations' = navigations + 1]_vars
    /\ [][probe = "navigated" => probe' = "navigated" /\ probes' = probes]_vars
    /\ [][\A o \in Outcomes : FetchReturn(o) => fetch' = "scheduled"]_vars

\* The probe was retried and then navigated away, to the page of the 502
\* status, while the state-fetch loop had been answered and stood scheduled
C19_Witness ==
    /\ probes >= 2
    /\ probe = "navigated"
    /\ navigations = 1
    /\ location = "/502.html"
    /\ fetches >= 2
    /\ fetch = "scheduled"

(* ------------------- properties of the stage details ------------------ *)

DetailOf(sts, i) == sts[i + 1].detail

\* The second result is computed on the lines of the first and one more line
OneMoreLine ==
    /\ computed
    /\ computed'
    /\ lines' # <<>>
    /\ Front(lines') = lines

\* C21: a line that matches patterns of several stages that are not skipped
\* is taken for the one with the lowest index alone: that stage is active in
\* the result on the lines up to it, and the other stages it matches are not
\* active and keep the detail they had before the line.
C21_OneStagePerLine ==
    [][(OneMoreLine /\ Cardinality(OpenMatches(stages', Last(lines'))) >= 2) =>
          LET hits == OpenMatches(stages', Last(lines'))
          IN  /\ ActiveSet(stages') = {Lowest(hits)}
              /\ \A j \in hits \ {Lowest(hits)} :
                    /\ StatusOf(stages', j) = "pending"
                    /\ DetailOf(stages', j) = DetailOf(stages, j)]_vars

\* The last line read matches two open stages that both have something to
\* show for it; the first of them shows it, the other does not
C21_Witness ==
    /\ computed
    /\ lines # <<>>
    /\ \E i, j \in OpenMatches(stages, Last(lines)) :
          /\ i < j
          /\ ActiveSet(stages) = {i}
          /\ DetailOf(stages, i) \in {<<"Cloning", KeyB>>, <<"Cloning fresh repo">>}
          /\ DetailOf(stages, j) = <<"detail of", stages[j + 1].id>>

\* What the detail rule of a stage is stated to find in a line
Finds(id, line) ==
    IF program = "comfy"
    THEN \/ id = "backup-nodes" /\ (line.clone # <<>> \/ line.cnr # <<>>)
         \/ id = "custom" /\ line.node # <<>>
    ELSE \/ id = "repo" /\ line.words \cap {"cloning", "updating repo"} # {}
         \/ id = "ui-build" /\
               line.words \cap {"installing ui dependencies", "building ui", "update_db"} # {}

\* C24: one more line changes the detail of no stage but the first open stage
\* it matches, and not of that one when its rule finds nothing in the line; a
\* line that matches no open stage changes no detail.
C24_DetailFrame ==
    [][OneMoreLine =>
          LET hits == OpenMatches(stages', Last(lines'))
          IN  \A j \in Indices(stages) :
                  (hits = {} \/ j # Lowest(hits)
                      \/ ~Finds(stages[j + 1].id, Last(lines')))
                  => DetailOf(stages', j) = DetailOf(stages, j)]_vars

\* Three lines were read: the first set a detail, the second matched the same
\* stage with nothing to find, the third had something to find and matched no
\* stage; the detail is the one the first line set
C24_Witness ==
    /\ computed
    /\ Len(lines) = 3
    /\ LET hits == OpenMatches(stages, lines[1])
       IN  /\ hits # {}
           /\ Finds(stages[Lowest(hits) + 1].id, lines[1])
           /\ OpenMatches(stages, lines[2]) = hits
           /\ ~Finds(stages[Lowest(hits) + 1].id, lines[2])
           /\ OpenMatches(stages, lines[3]) = {}
           /\ \E id \in {"backup-nodes", "custom", "repo", "ui-build"} : Finds(id, lines[3])
           /\ DetailOf(stages, Lowest(hits)) # <<"detail of", stages[Lowest(hits) + 1].id>>
           /\ DetailOf(stages, Lowest(hits)) # _backup_detail(backup)

(* ------------------ properties of begin and promotion ----------------- *)

Installing(nodes) == {n \in 1..Len(nodes) : nodes[n].status = "installing"}

\* C22: a begin event for a known item, by locator or by name, leaves that
\* item installing, sets the other item that was installing to done and
\* changes no other item; and at most one item is installing after every
\* prefix of the lines and in every result.
C22_OneInstalling ==
    /\ \A k \in ReplaySteps : \A n \in NodeIndices :
          BeginsNode(lines[k], n) =>
              /\ NodeStatus(replay[k + 1], n) = "installing"
              /\ \A m \in NodeIndices \ {n} :
                    NodeStatus(replay[k + 1], m) =
                        IF NodeStatus(replay[k], m) = "installing"
                        THEN "done"
                        ELSE NodeStatus(replay[k], m)
    /\ \A k \in 1..Len(replay) : Cardinality(Installing(replay[k].nodes)) <= 1
    /\ computed => Cardinality(Installing(backup.nodes)) <= 1

\* An item was begun by its name while another, begun by its locator, was
\* installing: the first is done and the second installing
C22_Witness ==
    /\ computed
    /\ Len(replay) = 3
    /\ lines[1].clone # <<>>
    /\ lines[2].cnr # <<>>
    /\ \E m, n \in NodeIndices :
          /\ m # n
          /\ BeginsNode(lines[1], m)
          /\ BeginsNode(lines[2], n)
          /\ NodeStatus(replay[2], m) = "installing"
          /\ NodeStatus(replay[3], m) = "done"
          /\ NodeStatus(replay[3], n) = "installing"

\* The positions of the begin events for a known item
Begins == {k \in ReplaySteps : \E n \in NodeIndices : BeginsNode(lines[k], n)}

\* The item of the last begin event
LastBegun ==
    LET k == CHOOSE j \in Begins : \A i \in Begins : i <= j
    IN  CHOOSE n \in NodeIndices : BeginsNode(lines[k], n)

\* The statuses at the end of the scan, before the promotion
ScanEnd == replay[Len(replay)]

\* C23: when the item begun last is installing at the end of the scan, the
\* result has every pending item before it as done and every other item as
\* the scan left it; otherwise the result has every item as the scan left it.
C23_PromotionAfterScan ==
    computed /\ replay # <<>> =>
        \A n \in NodeIndices :
            NodeStatus(backup, n) =
                IF /\ Begins # {}
                   /\ NodeStatus(ScanEnd, LastBegun) = "installing"
                   /\ n < LastBegun
                   /\ NodeStatus(ScanEnd, n) = "pending"
                THEN "done"
                ELSE NodeStatus(ScanEnd, n)

\* The third item was begun and is installing; of the two before it the one
\* that had failed is failed and the one that was pending is done
C23_Witness ==
    /\ computed
    /\ replay # <<>>
    /\ Len(backup.nodes) = 3
    /\ Begins # {}
    /\ LastBegun = 2
    /\ NodeStatus(ScanEnd, 2) = "installing"
    /\ \E m, n \in {0, 1} :
          /\ NodeStatus(ScanEnd, m) = "failed"
          /\ NodeStatus(backup, m) = "failed"
          /\ NodeStatus(ScanEnd, n) = "pending"
          /\ NodeStatus(backup, n) = "done"

(* ------------------- properties of the disabled feature --------------- *)

BackupStages == {"backup-manager", "backup-nodes"}

\* C25: with the restore flag off or no repository configured, every result
\* has no items and no manifest, the poll that gave it did not parse the
\* snapshot file, and the two backup stages, and no other, are skipped and
\* done; with the feature enabled no stage is skipped.
C25_DisabledFeature ==
    computed /\ program = "comfy" =>
        IF ~ENV_INFO.restore_enabled \/ ENV_INFO.backup_repo = "None"
        THEN /\ backup.nodes = <<>>
             /\ ~backup.enabled
             /\ ~backup.has_manifest
             /\ ~parsed
             /\ cache = EmptyCache
             /\ \A i \in Indices(stages) :
                   IF stages[i + 1].id \in BackupStages
                   THEN Skipped(stages, i) /\ StatusOf(stages, i) = "done"
                   ELSE ~Skipped(stages, i)
        ELSE \A i \in Indices(stages) : ~Skipped(stages, i)

\* A repository is configured and the restore is off; the snapshot file
\* holds items and the log a begin event for one of them
C25_Witness ==
    /\ computed
    /\ ENV_INFO = [backup_repo |-> "org/backup", restore_enabled |-> FALSE]
    /\ snapshot_kind = "good"
    /\ yaml_ok
    /\ ParseSnapshot(manifest) # <<>>
    /\ \E k \in 1..Len(lines) : lines[k] = CnrLine(KeyC)
    /\ response = Sent("application/json", "snapshot", TRUE)
    /\ backup.nodes = <<>>
    /\ backup.message = <<"configured but disabled">>

(* --------------------- properties of the one server ------------------- *)

\* The executions that have stored one of the two fields of the cache and
\* not yet the other
MidStore ==
    {i \in 1..Len(loads.running) : loads.running[i].pc \in {"reset", "store_mtime"}}

\* C26: at most one execution of the handler is under way at any time;
\* whenever none stands between its two stores to the cache, the mtime and
\* the items the cache holds were stored by one and the same request; and a
\* cache that holds the mtime of the snapshot file holds the items of that
\* file, also while the file is written and deleted between the statements
\* of a request.
C26_OneRequestAtATime ==
    /\ Len(loads.running) <= 1
    /\ MidStore = {} => wrote.mtime = wrote.nodes
    /\ (snapshot_kind = "good" /\ cache.mtime = mtime) =>
          cache.nodes = ParseSnapshot(manifest)

\* The second request has stored the second version of the snapshot, after
\* the first request had stored the first
C26_Witness ==
    /\ loads.accepted = 2
    /\ loads.running = <<>>
    /\ wrote = [mtime |-> 2, nodes |-> 2]
    /\ mtime = 2
    /\ cache = [mtime |-> 2, nodes |-> ParseSnapshot(manifest)]
    /\ cache.nodes # <<>>
    /\ computed
    /\ parsed

(* --------- properties of the page served by the wait-page server ------ *)

\* C27: for both pages, as long as every readiness probe of the page is
\* answered by the wait-page server that served it, the page never navigates
\* away: it keeps waiting and probing.
C27_WaitsWhileServedByWaitPage ==
    /\ navigations = 0
    /\ location = "wait page"
    /\ probe # "navigated"

====
